---- MODULE Spec2Model ----
(***************************************************************************)
(* Model of the function generated by boxed_array_fn!(name, size) in       *)
(* src/lib.rs: a Vec of capacity `size` is reserved inside a ManuallyDrop, *)
(* filled slot by slot with ptr::write(ptr.offset(i), init(i)), and its    *)
(* storage is then handed to a Box<[T; size]> with Box::from_raw.          *)
(*                                                                         *)
(* The heap is a sequence of regions, the call stack a sequence of frames  *)
(* (one per running generated function; two when the initializer of an     *)
(* outer call runs an inner one, as in the seq_seq doc test).  Each value   *)
(* produced by an initializer is a leaf with a unique id, so that          *)
(* destructor runs can be counted per element.                             *)
(***************************************************************************)
EXTENDS Integers, Sequences, FiniteSets, TLC

\* ------------------------------------------------------------------ bounds
MaxSize == 5      \* largest $size a generated function is instantiated with
MaxInner == 3     \* largest $size of the inner function of a nested call
MaxVal == 1       \* table initializers return values in 0..MaxVal
MaxEnv == 1       \* captured start value of a counting initializer

VARIABLES
    size,       \* $size of the generated function being called
    init,       \* the initializer passed by the caller
    pc,         \* "idle", "running", "returned", "released", "panicked"
    stack,      \* frames of the running generated functions, innermost last
    heap,       \* every region ever reserved
    dropCount,  \* dropCount[id]: destructor runs of the leaf id
    done,       \* record of every generated-function call that has ended
    result,     \* region the caller's Box points to, 0 while it has none
    badReads,   \* reads of a slot that holds no value
    badDrops    \* destructor runs on a slot that holds no value

vars == <<size, init, pc, stack, heap, dropCount, done, result, badReads, badDrops>>

\* ------------------------------------------------------------------ values
Uninit == [kind |-> "uninit", elems |-> <<>>]

Scalar(leaf) == [kind |-> "scalar", elems |-> <<leaf>>]

RECURSIVE Flatten(_)
Flatten(slots) ==
    IF slots = <<>> THEN <<>>
    ELSE Head(slots).elems \o Flatten(Tail(slots))

\* the [T; n] moved out of a box: the values of its slots, in order
ArrayOf(slots) == [kind |-> "array", elems |-> Flatten(slots)]

Vals(v) == [k \in 1..Len(v.elems) |-> v.elems[k].val]

UninitCount(slots) == Cardinality({k \in 1..Len(slots) : slots[k].kind = "uninit"})

Occurrences(slots, id) ==
    Cardinality({p \in {<<s, k>> : s \in 1..Len(slots), k \in 1..(MaxInner + 2)} :
                    /\ p[2] <= Len(slots[p[1]].elems)
                    /\ slots[p[1]].elems[p[2]].id = id})

\* ------------------------------------------------------------ initializers
ZeroTbl == [x \in 0..(MaxSize + 1) |-> 0]

Closure(kind, tbl, env, failAt, inner, innerFailAt) ==
    [kind |-> kind, tbl |-> tbl, env |-> env, failAt |-> failAt,
     inner |-> inner, innerFailAt |-> innerFailAt]

\* the initializers a caller may pass to a function of size n; failAt is the
\* index at which the initializer panics (-1: it never does)
Initializers(n) ==
    {Closure(k, ZeroTbl, 0, f, 0, -1) : k \in {"ident", "square"}, f \in -1..(n - 1)}
    \cup {Closure("table", t, 0, f, 0, -1) :
            t \in [0..n -> 0..MaxVal], f \in {-1, n - 1}}
    \cup {Closure("counter", ZeroTbl, e, f, 0, -1) : e \in 0..MaxEnv, f \in -1..(n - 1)}
    \cup {Closure("nested", ZeroTbl, 0, -1, m, -1) : m \in 0..MaxInner}
    \cup UNION {{Closure("nested", ZeroTbl, 0, f, m, g) :
                    f \in 0..(n - 1), g \in 0..(m - 1)} : m \in 1..MaxInner}

\* the value the closure returns when called with i after ncalls earlier calls
InitValue(c, i, ncalls) ==
    CASE c.kind = "ident" -> i
      [] c.kind = "square" -> i * i
      [] c.kind = "table" -> c.tbl[i]
      [] c.kind = "counter" -> c.env + ncalls
      [] c.kind = "add" -> i + c.env
      [] OTHER -> 0

\* |i| i + j, the closure the nested initializer passes to the inner function
InnerClosure(c, j) ==
    Closure("add", ZeroTbl, j, IF c.failAt = j THEN c.innerFailAt ELSE -1, 0, -1)

\* ------------------------------------------- the generated function's code
\* Vec::with_capacity($size): the capacity requested for the backing storage
CapacityOver(n) == n + 1

Capacity(n) == n

\* ManuallyDrop::new(Vec::with_capacity($size)): storage for Capacity(n)
\* elements, none constructed, owned by a Vec that is never dropped
NewRegion(n) ==
    [cap |-> Capacity(n), slots |-> [k \in 1..Capacity(n) |-> Uninit],
     owner |-> "vec", freed |-> 0]

NewFrame(n, c, ptr) ==
    [size |-> n, init |-> c, i |-> 0, ptr |-> ptr, args |-> <<>>, rets |-> <<>>]

Top == stack[Len(stack)]

\* let ptr = array.as_mut_ptr(): the storage of this call's own Vec
TargetPtrShared(stk) == stk[1].ptr

TargetPtr(stk) == stk[Len(stk)].ptr

\* for i in 0..$size: the loop's exit test and its step
LoopDoneInclusive(i, n) == i > n

LoopDoneEarly(i, n) == i >= n - 1

LoopDone(i, n) == i >= n

NextIndexSkip(i) == i + 2

NextIndex(i) == i + 1

\* ptr.offset(i as isize): the slot the i-th value goes to (slots count from 1)
SlotOffsetFirst(i) == 1

SlotOffset(i) == i + 1

\* std::ptr::write(ptr.offset(i), v): stores v without reading or dropping
\* what the slot held
ptrWriteFromOne(slots, i, v) ==
    IF i = 0 THEN slots ELSE [slots EXCEPT ![SlotOffset(i)] = v]

ptrWrite(slots, i, v) == [slots EXCEPT ![SlotOffset(i)] = v]

\* what leaving the function does to the local `array`: it is a ManuallyDrop,
\* so neither its elements (its len is 0) nor its storage are touched
DropLocalVecPlain(r) == [r EXCEPT !.freed = @ + 1]

DropLocalVec(r) == r

\* Box::from_raw(ptr as *mut [T; $size]): the region itself becomes the box
BoxFromRaw(r) == [r EXCEPT !.owner = "box"]

\* the frames left running when init(i) panics: the function catches
\* nothing, the panic unwinds through every frame
PanicResumeSwallow(stk) == [stk EXCEPT ![Len(stk)].i = NextIndex(@)]

PanicResume(stk) == <<>>

Ended(f, depth, outcome) ==
    [size |-> f.size, ptr |-> f.ptr, args |-> f.args, rets |-> f.rets,
     depth |-> depth, outcome |-> outcome]

\* every frame of stk, unwound by a panic
Unwound(stk) == [d \in 1..Len(stk) |-> Ended(stk[d], d, "panicked")]

\* dropping a Box<[T; n]>: each slot's destructor runs, the storage is freed
DropSlots(slots) == [id \in DOMAIN dropCount |-> dropCount[id] + Occurrences(slots, id)]

FreeBox(r) ==
    [r EXCEPT !.freed = @ + 1, !.owner = "none",
              !.slots = [k \in 1..Len(r.slots) |-> Uninit]]

\* ----------------------------------------------------------------- actions
Init ==
    /\ size \in 0..MaxSize
    /\ init \in Initializers(size)
    /\ pc = "idle"
    /\ stack = <<>>
    /\ heap = <<>>
    /\ dropCount = <<>>
    /\ done = <<>>
    /\ result = 0
    /\ badReads = 0
    /\ badDrops = 0

\* the caller calls name(init): lines 54-58
Construct ==
    /\ pc = "idle"
    /\ pc' = "running"
    /\ heap' = Append(heap, NewRegion(size))
    /\ stack' = <<NewFrame(size, init, Len(heap) + 1)>>
    /\ UNCHANGED <<size, init, dropCount, done, result, badReads, badDrops>>

\* one iteration of the loop with an initializer that returns: lines 59-66
InitWrite ==
    /\ pc = "running"
    /\ stack # <<>>
    /\ ~LoopDone(Top.i, Top.size)
    /\ Top.init.kind # "nested"
    /\ Top.init.failAt # Top.i
    /\ LET f == Top
           v == Scalar([id |-> Len(dropCount) + 1,
                        val |-> InitValue(f.init, f.i, Len(f.args))])
       IN /\ heap' = [heap EXCEPT ![TargetPtr(stack)].slots = ptrWrite(@, f.i, v)]
          /\ stack' = [stack EXCEPT ![Len(stack)] =
                          [f EXCEPT !.i = NextIndex(f.i),
                                    !.args = Append(@, f.i),
                                    !.rets = Append(@, v)]]
          /\ dropCount' = Append(dropCount, 0)
    /\ UNCHANGED <<size, init, pc, done, result, badReads, badDrops>>

\* init(j) of a nested initializer starts the inner function: doc test line 33
InitNestedCall ==
    /\ pc = "running"
    /\ Len(stack) = 1
    /\ ~LoopDone(Top.i, Top.size)
    /\ Top.init.kind = "nested"
    /\ LET f == Top
       IN /\ heap' = Append(heap, NewRegion(f.init.inner))
          /\ stack' = Append([stack EXCEPT ![1].args = Append(@, f.i)],
                             NewFrame(f.init.inner, InnerClosure(f.init, f.i),
                                      Len(heap) + 1))
    /\ UNCHANGED <<size, init, pc, dropCount, done, result, badReads, badDrops>>

\* the inner function returns its box; the outer initializer moves the array
\* out of it (`*seq(..)`, which frees the inner box without dropping the moved
\* elements) and the outer loop writes it to slot j
NestedReturn ==
    /\ pc = "running"
    /\ Len(stack) = 2
    /\ LoopDone(Top.i, Top.size)
    /\ LET inner == Top
           ip == TargetPtr(stack)
           boxed == BoxFromRaw(DropLocalVec(heap[ip]))
           arr == ArrayOf([k \in 1..inner.size |-> boxed.slots[k]])
           outer == stack[1]
           rest == <<[outer EXCEPT !.i = NextIndex(outer.i), !.rets = Append(@, arr)]>>
           freed == [heap EXCEPT ![ip] = FreeBox(boxed)]
       IN /\ badReads' = badReads + UninitCount([k \in 1..inner.size |-> boxed.slots[k]])
          /\ heap' = [freed EXCEPT ![TargetPtr(rest)].slots = ptrWrite(@, outer.i, arr)]
          /\ stack' = rest
          /\ done' = Append(done, Ended(inner, 2, "returned"))
    /\ UNCHANGED <<size, init, pc, dropCount, result, badDrops>>

\* init(i) panics: the panic unwinds out of the loop and the function
InitPanic ==
    /\ pc = "running"
    /\ stack # <<>>
    /\ ~LoopDone(Top.i, Top.size)
    /\ Top.init.kind # "nested"
    /\ Top.init.failAt = Top.i
    /\ LET called == [stack EXCEPT ![Len(stack)].args = Append(@, Top.i)]
           left == PanicResume(called)
       IN IF left = <<>>
          THEN /\ pc' = "panicked"
               /\ stack' = <<>>
               /\ done' = done \o Unwound(called)
               /\ heap' = [p \in 1..Len(heap) |->
                             IF \E d \in 1..Len(called) : called[d].ptr = p
                             THEN [DropLocalVec(heap[p]) EXCEPT !.owner = "none"]
                             ELSE heap[p]]
          ELSE /\ stack' = left
               /\ UNCHANGED <<pc, done, heap>>
    /\ UNCHANGED <<size, init, dropCount, result, badReads, badDrops>>

\* the loop is over in the outermost call: line 71 and the function's end
ReturnBox ==
    /\ pc = "running"
    /\ Len(stack) = 1
    /\ LoopDone(Top.i, Top.size)
    /\ LET p == TargetPtr(stack)
       IN /\ heap' = [heap EXCEPT ![p] = BoxFromRaw(DropLocalVec(@))]
          /\ result' = p
    /\ pc' = "returned"
    /\ stack' = <<>>
    /\ done' = Append(done, Ended(Top, 1, "returned"))
    /\ UNCHANGED <<size, init, dropCount, badReads, badDrops>>

\* the caller, sole owner of the box, lets go of it
Release ==
    /\ pc = "returned"
    /\ pc' = "released"
    /\ LET slots == [k \in 1..size |-> heap[result].slots[k]]
       IN /\ dropCount' = DropSlots(slots)
          /\ badDrops' = badDrops + UninitCount(slots)
          /\ badReads' = badReads + UninitCount(slots)
    /\ heap' = [heap EXCEPT ![result] = FreeBox(@)]
    /\ UNCHANGED <<size, init, stack, done, result>>

Next ==
    \/ Construct
    \/ InitWrite
    \/ InitNestedCall
    \/ NestedReturn
    \/ InitPanic
    \/ ReturnBox
    \/ Release

Spec == Init /\ [][Next]_vars

\* ------------------------------------------------------------------ claims
\* the caller's Box<[T; size]>: the first `size` slots of the region it owns
ResultArray == [k \in 1..size |-> heap[result].slots[k]]

Iota(n) == [k \in 1..n |-> k - 1]

EndedCalls == {done[k] : k \in 1..Len(done)}

\* the record of the outermost call, once it has ended
TopDone == CHOOSE r \in EndedCalls : r.depth = 1

PureKinds == {"ident", "square", "table"}

\* C1: called with a pure initializer f, the function of size N returns a
\* container of length N whose element i is f(i); size 3 with i -> i gives
\* [0, 1, 2] and size 5 with i -> i * i gives [0, 1, 4, 9, 16].
Thm_C1_PureResult ==
    (pc = "returned" /\ init.kind \in PureKinds) =>
        /\ Len(ResultArray) = size
        /\ \A i \in 0..(size - 1) :
              /\ ResultArray[i + 1].kind = "scalar"
              /\ Vals(ResultArray[i + 1]) = <<InitValue(init, i, 0)>>
        /\ (size = 3 /\ init.kind = "ident") =>
              [k \in 1..size |-> Vals(ResultArray[k])] = <<<<0>>, <<1>>, <<2>>>>
        /\ (size = 5 /\ init.kind = "square") =>
              [k \in 1..size |-> Vals(ResultArray[k])] =
                  <<<<0>>, <<1>>, <<4>>, <<9>>, <<16>>>>

Wit_C1_SquaresOfFive ==
    /\ pc = "returned"
    /\ size = 5
    /\ init.kind = "square"
    /\ [k \in 1..size |-> Vals(ResultArray[k])] = <<<<0>>, <<1>>, <<4>>, <<9>>, <<16>>>>

\* C2: in every call that completes, the initializer has been invoked exactly
\* N times and the arguments it received are 0, 1, ..., N-1 in that order.
Thm_C2_ArgsAscending ==
    \A r \in EndedCalls :
        r.outcome = "returned" => (Len(r.args) = r.size /\ r.args = Iota(r.size))

Wit_C2_ThreeCallsLogged ==
    /\ pc = "returned"
    /\ size >= 3
    /\ init.kind = "counter"
    /\ TopDone.args = Iota(size)

\* C3 (as stated): when the initializer fails on call k, the slots 0..k-1
\* have each had their destructor run exactly once and the reserved storage
\* has been released by the time the failure reaches the caller.
CE_C3_PanicCleansUp ==
    pc = "panicked" =>
        /\ \A id \in DOMAIN dropCount : dropCount[id] = 1
        /\ \A p \in DOMAIN heap : heap[p].freed = 1

\* C4: a failing initializer's failure reaches the caller, no container is
\* returned or observed, and the initializer is not invoked for any index
\* greater than the failing one.
Thm_C4_AllOrNothing ==
    /\ init.failAt >= 0 =>
          /\ pc \notin {"returned", "released"}
          /\ result = 0
          /\ \A p \in DOMAIN heap : heap[p].owner # "box"
          /\ stack # <<>> =>
                \A k \in DOMAIN stack[1].args : stack[1].args[k] <= init.failAt
    /\ pc = "panicked" =>
          /\ init.failAt >= 0
          /\ TopDone.outcome = "panicked"
          /\ TopDone.args = Iota(init.failAt + 1)
          /\ \A r \in EndedCalls :
                (r.depth = 2 /\ r.outcome = "panicked") =>
                    r.args = Iota(init.innerFailAt + 1)

Wit_C4_PanicAtSecondCall ==
    /\ pc = "panicked"
    /\ init.failAt = 1
    /\ Len(dropCount) >= 1
    /\ result = 0

\* C5: for N = 0 the function returns an empty, valid container and the
\* initializer is never invoked.
Thm_C5_ZeroSize ==
    /\ \A d \in DOMAIN stack : stack[d].size = 0 => stack[d].args = <<>>
    /\ \A r \in EndedCalls : r.size = 0 =>
          (r.outcome = "returned" /\ r.args = <<>> /\ r.rets = <<>>)
    /\ size = 0 =>
          /\ dropCount = <<>>
          /\ pc # "panicked"
          /\ pc = "returned" => (ResultArray = <<>> /\ heap[result].owner = "box")

Wit_C5_EmptyReturned ==
    /\ size = 0
    /\ pc = "returned"
    /\ ResultArray = <<>>
    /\ TopDone.args = <<>>

\* C6: every slot of the returned array holds a constructed value when the
\* array is handed over, no slot is read before it is written, and storage
\* is a container only once all its N slots are written.
Thm_C6_InitializedBeforeUse ==
    /\ badReads = 0
    /\ pc = "returned" => \A k \in 1..size : ResultArray[k].kind # "uninit"
    /\ \A p \in DOMAIN heap :
          heap[p].owner = "box" =>
              \A k \in DOMAIN heap[p].slots : heap[p].slots[k].kind # "uninit"

Wit_C6_FullArrayHandedOver ==
    /\ pc = "returned"
    /\ size >= 3
    /\ heap[result].owner = "box"
    /\ \A k \in 1..size : ResultArray[k].kind = "scalar"

\* C7: nesting is function composition: an inner call made by the outer
\* initializer runs to completion without disturbing the outer construction
\* and element j of the result is the inner array built in outer step j;
\* outer size 2, inner size 3, i -> i + j gives [[0,1,2],[1,2,3]].
Thm_C7_Nesting ==
    /\ Len(stack) = 2 =>
          LET outer == stack[1]
              slots == heap[outer.ptr].slots
          IN /\ Len(outer.rets) = outer.i
             /\ \A k \in DOMAIN slots :
                   slots[k] = IF k <= outer.i THEN outer.rets[k] ELSE Uninit
    /\ (pc = "returned" /\ init.kind = "nested") =>
          /\ \A j \in 0..(size - 1) :
                /\ ResultArray[j + 1].kind = "array"
                /\ Vals(ResultArray[j + 1]) = [i \in 1..init.inner |-> (i - 1) + j]
          /\ (size = 2 /\ init.inner = 3) =>
                [k \in 1..size |-> Vals(ResultArray[k])] = <<<<0, 1, 2>>, <<1, 2, 3>>>>

Wit_C7_TwoByThree ==
    /\ pc = "returned"
    /\ init.kind = "nested"
    /\ size = 2
    /\ init.inner = 3
    /\ [k \in 1..size |-> Vals(ResultArray[k])] = <<<<0, 1, 2>>, <<1, 2, 3>>>>

\* C8: with a stateful initializer, element i of the returned array is the
\* value returned by the i-th invocation; no returned value is dropped,
\* duplicated or stored in another slot.
Thm_C8_StatefulResult ==
    pc = "returned" =>
        /\ Len(TopDone.rets) = size
        /\ \A i \in 0..(size - 1) : ResultArray[i + 1] = TopDone.rets[i + 1]
        /\ init.kind = "counter" =>
              \A i \in 0..(size - 1) : Vals(ResultArray[i + 1]) = <<init.env + i>>
        /\ \A id \in DOMAIN dropCount : Occurrences(ResultArray, id) = 1

Wit_C8_CounterReturned ==
    /\ pc = "returned"
    /\ init.kind = "counter"
    /\ init.env = 1
    /\ size >= 3
    /\ Vals(ResultArray[3]) = <<3>>

\* C9: on every path no element is destroyed more than once, no slot that
\* never completed construction is destroyed, and the storage is released at
\* most once, never by the temporary buffer, only by the box's owner.
Thm_C9_NoDoubleDestroy ==
    /\ badDrops = 0
    /\ \A id \in DOMAIN dropCount : dropCount[id] <= 1
    /\ \A p \in DOMAIN heap :
          /\ heap[p].freed <= 1
          /\ heap[p].owner = "vec" => heap[p].freed = 0
    /\ pc \in {"running", "returned"} =>
          /\ heap[1].freed = 0
          /\ \A id \in DOMAIN dropCount : dropCount[id] = 0
    /\ pc = "released" =>
          /\ heap[result].freed = 1
          /\ \A id \in DOMAIN dropCount : dropCount[id] = 1

Wit_C9_ReleasedOnce ==
    /\ pc = "released"
    /\ Len(dropCount) >= 2
    /\ heap[result].freed = 1
    /\ \A id \in DOMAIN dropCount : dropCount[id] = 1

\* C10: a call makes exactly one reservation, for exactly N elements, before
\* any initializer call; the conversion to the container allocates and
\* copies nothing: the returned storage is the region reserved and filled.
Thm_C10_OneExactReservation ==
    /\ Len(heap) = Len(stack) + Len(done)
    /\ \A d \in DOMAIN stack :
          /\ stack[d].ptr \in DOMAIN heap
          /\ heap[stack[d].ptr].cap = stack[d].size
          /\ Len(heap[stack[d].ptr].slots) = stack[d].size
          /\ \A e \in DOMAIN stack : stack[e].ptr = stack[d].ptr => e = d
    /\ \A r \in EndedCalls : heap[r.ptr].cap = r.size
    /\ pc = "returned" =>
          /\ result = TopDone.ptr
          /\ result = 1
          /\ heap[result].slots = TopDone.rets

Wit_C10_ReturnedReservedRegion ==
    /\ pc = "returned"
    /\ size >= 2
    /\ Len(heap) = 1
    /\ result = 1
    /\ heap[1].cap = size

====
